---- MODULE Spec2Model ----
(***************************************************************************)
(* Model of the proxy side of the ckpool work generator (src/generator.c). *)
(*                                                                         *)
(* Three threads share one proxy_instance: the receive thread (startup in  *)
(* proxy_mode, then proxy_recv with reconnect_stratum), the send thread    *)
(* (proxy_send) and the control thread (proxy_loop).  The upstream pool    *)
(* and the stratifier are the environment: every line read from the        *)
(* upstream and every request on the control socket is drawn from a small  *)
(* set.                                                                    *)
(***************************************************************************)
EXTENDS Integers, Sequences, FiniteSets, TLC

(* ------------------------------ bounds -------------------------------- *)
\* notifications accepted in one run (proxi->notify_id stays below it)
MaxNotifyId == 3
\* share submissions accepted in one run (proxi->share_id stays below it)
MaxShareId == 1
\* JSON-RPC requests (subscribe, authorize) sent in one run (proxi->id)
MaxReqId == 6
\* number of clock advances in one run
MaxTicks == 1
\* the same four for the specification of the share pipeline
ShareMaxNotifyId == 1
ShareMaxShareId == 2
ShareMaxReqId == 4
ShareMaxTicks == 1
\* and for the specification of notification aging
AgeMaxNotifyId == 10
AgeMaxReqId == 2
AgeMaxTicks == 3
\* and for the specification of the subscribe handshake: requests, and the
\* largest low word of a nonce2 length the upstream is given to send
SubMaxReqId == 6
SubMaxNonce2 == 10

(* ------------------------- program constants -------------------------- *)
\* HASH_COUNT(proxi->notify_instances) < 3 stops the aging pass
NotifyKeep == 3
\* ni->notify_time < now - 600
NotifyAge == 600
\* share->submit_time < now - 120
ShareAge == 120
\* proxi->nonce1len > 15 is rejected
MaxNonce1Len == 15
\* size < 4 is rejected ("too small to be able to proxy")
MinNonce2 == 4
\* size > 8 is rejected
MaxNonce2 == 8
\* size < 1 is rejected
LowNonce2 == 1
\* ++retries < 24 keeps the read loop of proxy_recv going
MaxRetries == 24
MerkleRows == 16     \* char merklehash[16][68]

(* ------------------------------ values -------------------------------- *)
\* a NULL char pointer (sessionid, enonce1, jobid)
NULLS == "NULL"
\* a NULL notify_instance_t pointer; live pointers are the entry's address,
\* which the model identifies with the id the entry was given
NULL == -1
\* the JSON value null / a value that is not a JSON integer
JNull == -1
\* json_object_get found no such key
JAbsent == -2

\* upstream job ids; an upstream may use the same job id again
JobIds == {"ja", "jb"}
\* stratifier client ids and stratum message ids of submissions
ClientIds == {7}
MsgIds == {42, 43}

VARIABLES
    \* ---- proxy_instance
    notify_instances,   \* hash table of notifications, in insertion order
    current_notify,     \* pointer to the most recent notification, or NULL
    notify_id,          \* next local job id
    notified,           \* "received new template" flag
    shares,             \* hash table of outstanding shares, insertion order
    share_id,           \* next local share id
    psends,             \* the send queue (DL list of stratum_msg_t)
    sessionid, enonce1, nonce1len, nonce2len,
    no_sessionid, no_params,
    id,                 \* proxi->id, JSON-RPC request id counter
    \* ---- connsock
    sock,               \* "open" or "closed": state of cs->fd
    buf,                \* cs->buf, the last line read from the upstream
    \* ---- environment
    now,                \* time(NULL)
    ticks,              \* clock advances so far
    \* ---- threads
    started,            \* proxy_mode has created the threads
    rpc,                \* position of the startup / receive thread
    spc, smsg, sjobid, \* proxy_send: position, msg, jobid
    stried,             \* proxy_send: this iteration called send_json_msg
    psend_lock,         \* owner of proxi->psend_lock: "free", "send", "loop"
    psend_cond,         \* a pthread_cond_signal reached the waiting send
                        \* thread and has not been consumed
    sfconn,             \* proxy_send: the connection on which the
                        \* notification found at lookup was received
    sconn,              \* proxy_send: the connection cs->fd referred to
                        \* when this iteration reached its send or drop
    cpc, cval,          \* proxy_loop: position, val handed to submit_share
    crashed,            \* the process died on a NULL / freed pointer
    \* ---- observation of what went out and what happened
    wire,               \* mining.submit requests transmitted upstream
    sfound,             \* upstream job ids the cache held for smsg at lookup
    accepted,           \* local ids given to accepted notifications, in order
    appended,           \* ids of the submissions put on psends, in order
    taken,              \* ids of the submissions taken off psends, in order
    sub_trace,          \* this subscribe_stratum call: forms tried, outcome
    sub_reconnects,     \* this subscribe_stratum call: connect_proxy calls
    sub_reply,          \* this subscribe_stratum call: last response parsed
    conn,               \* number of the connection cs->fd refers to
    \* ---- proxy_instance, continued
    diff,               \* proxi->diff
    diffed,             \* proxi->diffed
    \* ---- the receive loop
    retries,            \* proxy_recv: empty reads in this iteration
    \* ---- observation, continued
    sig,                \* signals the receive thread sent to the stratifier
                        \* in its last step
    pending,            \* notifications inserted and not yet signalled
    reqs,               \* ids of the subscribe and authorize requests
                        \* written on this connection
    recv_writes,        \* requests the receive thread wrote upstream
    \* ---- endpoint selection at startup
    alive,              \* si->alive of the endpoints probed so far
    served,             \* index of the endpoint the mode serves
    mode_ret,           \* ret of server_mode / proxy_mode once it returned
    proxy,              \* ckp->proxy
    nservers,           \* ckp->btcds or ckp->proxies
    sel_i,              \* the loop index i of the mode
    si,                 \* the index of the endpoint si points to, or NULL
    mpc                 \* position of generator and the mode it runs

vars == <<notify_instances, current_notify, notify_id, notified, shares,
          share_id, psends, sessionid, enonce1, nonce1len, nonce2len,
          no_sessionid, no_params, id, sock, buf, now, ticks, started, rpc,
          spc, smsg, sjobid, stried, sconn, sfconn, psend_lock, psend_cond, cpc, cval, crashed, wire, sfound,
          accepted,
          appended, taken, sub_trace, sub_reconnects, sub_reply, conn,
          diff, diffed, retries, sig, pending, reqs, recv_writes, alive,
          served, mode_ret, proxy, nservers, sel_i, si, mpc>>

notifyVars == <<notify_instances, current_notify, notify_id, notified>>
shareVars == <<shares, share_id>>
sessionVars == <<sessionid, enonce1, nonce1len, nonce2len, no_sessionid,
                 no_params>>
lockVars == <<psend_lock, psend_cond>>
sendVars == <<spc, smsg, sjobid, wire, sfound, taken, stried, sconn,
              sfconn, lockVars>>
ctlVars == <<cpc, cval, appended>>
sockVars == <<sock, conn>>
subVars == <<sub_trace, sub_reconnects, sub_reply>>
clockVars == <<now, ticks>>
diffVars == <<diff, diffed>>
sigVars == <<sig, pending>>
reqVars == <<reqs, recv_writes>>
selVars == <<alive, served, mode_ret, proxy, nservers, sel_i, si, mpc>>
moreVars == <<diffVars, sigVars, retries, reqVars, selVars>>

(* --------------------------- pure helpers ----------------------------- *)
Range(s) == {s[i] : i \in 1..Len(s)}

\* json_integer_value: 0 for a value that is not a JSON integer
json_integer_value(v) == IF v = JNull \/ v = JAbsent THEN 0 ELSE v

\* HASH_FIND_INT: index of the entry with this key, 0 when there is none
HASH_FIND_INT(tbl, key) ==
    IF \E i \in 1..Len(tbl) : tbl[i].id = key
    THEN CHOOSE i \in 1..Len(tbl) :
            /\ tbl[i].id = key
            /\ \A j \in 1..(i - 1) : tbl[j].id # key
    ELSE 0

\* HASH_DEL of the entry at index i
HASH_DEL(tbl, i) == SubSeq(tbl, 1, i - 1) \o SubSeq(tbl, i + 1, Len(tbl))

(* ----------------------- subscribe (pure part) ------------------------ *)
\* which mining.subscribe request subscribe_stratum builds: the number of
\* parameters it carries
subscribe_form(sid, np) ==
    IF sid # NULLS THEN 2 ELSE IF ~np THEN 1 ELSE 0

\* a JSON integer is a json_int_t of 64 bits: hi and lo are its upper and
\* its lower 32 bits; isint is json_is_integer
JInt(hi, lo) == [isint |-> TRUE, hi |-> hi, lo |-> lo]
JNotInt == [isint |-> FALSE, hi |-> 0, lo |-> 0]

\* int size = json_integer_value(tmp): the conversion to int keeps the lower
\* 32 bits
json_int_to_int(v) == v.lo

\* the nonce2 length test of parse_subscribe
Nonce2Accepted(size) ==
    /\ ~(size < LowNonce2 \/ size > MaxNonce2)
    /\ ~(size < MinNonce2)

\* parse_subscribe on the response r, from the session state given: the
\* return value and the session fields as the function leaves them.
\* r.kind = "timeout": read_socket_line returned < 1; "error": no result,
\* result not an array, array too small or no notify tuple in it.
parse_subscribe(r, sid, e1, n1, n2, nsid, np) ==
    LET sid1 == IF ~np /\ ~nsid /\ r.sid # NULLS THEN r.sid ELSE sid
        len1 == Len(r.enonce1) \div 2
    IN  IF r.kind # "array"
        THEN [ret |-> FALSE, sessionid |-> sid, enonce1 |-> e1,
              nonce1len |-> n1, nonce2len |-> n2]
        ELSE IF r.enonce1 = NULLS \/ Len(r.enonce1) < 1
        THEN [ret |-> FALSE, sessionid |-> sid1, enonce1 |-> e1,
              nonce1len |-> n1, nonce2len |-> n2]
        ELSE IF len1 > MaxNonce1Len
                \/ ~r.nonce2.isint
                \/ ~Nonce2Accepted(json_int_to_int(r.nonce2))
        THEN [ret |-> FALSE, sessionid |-> sid1, enonce1 |-> r.enonce1,
              nonce1len |-> len1, nonce2len |-> n2]
        ELSE [ret |-> TRUE, sessionid |-> sid1, enonce1 |-> r.enonce1,
              nonce1len |-> len1,
              nonce2len |-> json_int_to_int(r.nonce2)]

\* a fallback that drops the session id and the parameters at once
subscribe_fallback_flat(sid, nsid, np) ==
    IF np
    THEN [giveup |-> TRUE, sessionid |-> sid, no_sessionid |-> nsid,
          no_params |-> np]
    ELSE [giveup |-> FALSE, sessionid |-> NULLS, no_sessionid |-> TRUE,
          no_params |-> TRUE]

\* what subscribe_stratum does with the flags after a failed parse_subscribe
subscribe_fallback(sid, nsid, np) ==
    IF np
    THEN [giveup |-> TRUE, sessionid |-> sid, no_sessionid |-> nsid,
          no_params |-> np]
    ELSE IF sid # NULLS
    THEN [giveup |-> FALSE, sessionid |-> NULLS, no_sessionid |-> TRUE,
          no_params |-> np]
    ELSE [giveup |-> FALSE, sessionid |-> sid, no_sessionid |-> nsid,
          no_params |-> TRUE]

(* ------------------------- aging (pure part) -------------------------- *)
\* the notification aging pass of proxy_recv: HASH_ITER in insertion order,
\* kept = entries visited and left in the table, rest = entries to visit
RECURSIVE AgeNotifyIter(_, _, _)
AgeNotifyIter(kept, rest, t) ==
    IF rest = <<>> THEN kept
    ELSE IF Len(kept) + Len(rest) < NotifyKeep THEN kept \o rest
    ELSE IF Head(rest).notify_time < t - NotifyAge
         THEN AgeNotifyIter(kept, Tail(rest), t)
         ELSE AgeNotifyIter(Append(kept, Head(rest)), Tail(rest), t)

\* an aging pass that deletes every old notification whatever the count
age_notifies_all(tbl, t) ==
    SelectSeq(tbl, LAMBDA ni : ~(ni.notify_time < t - NotifyAge))

age_notifies(tbl, t) == AgeNotifyIter(<<>>, tbl, t)

\* the share aging pass of proxy_recv
age_shares(tbl, t) ==
    SelectSeq(tbl, LAMBDA s : ~(s.submit_time < t - ShareAge))

(* ---------------------------- the upstream ---------------------------- *)
\* lines the upstream may send.  method "" = the line has no method key;
\* ok = the params of a mining.notify hold every mandatory field;
\* result = json_is_true of the result key.
\* merkles = json_array_size of params[4], the Merkle array
NotifyMsgsWith(counts) ==
    {[method |-> "mining.notify", id |-> JNull, ok |-> TRUE, jobid |-> j,
      result |-> FALSE, merkles |-> n] : j \in JobIds, n \in counts}

NotifyMsgs == NotifyMsgsWith({1})

\* a mining.notify whose params lack a mandatory field
BadNotifyMsgs ==
    {[method |-> "mining.notify", id |-> JNull, ok |-> FALSE,
      jobid |-> NULLS, result |-> FALSE]}

OtherMethodMsgs ==
    {[method |-> "mining.other", id |-> i, ok |-> FALSE, jobid |-> NULLS,
      result |-> FALSE] : i \in {JNull, 1}}

ResultMsgs ==
    {[method |-> "", id |-> i, ok |-> FALSE, jobid |-> NULLS, result |-> b] :
        i \in {JAbsent, JNull} \cup (0..ShareMaxShareId), b \in BOOLEAN}

\* mining.set_difficulty with the value json_number_value gives for params[0]
\* (0 when it is missing or not a number)
DiffMsgs(values) ==
    {[method |-> "mining.set_difficulty", id |-> JNull, ok |-> TRUE,
      jobid |-> NULLS, result |-> FALSE, diff |-> d] : d \in values}

\* client.get_version, client.reconnect, and client.show_message with and
\* without a string in params
ClientMsgs ==
    {[method |-> "client.get_version", id |-> 1, ok |-> TRUE,
      jobid |-> NULLS, result |-> FALSE],
     [method |-> "client.reconnect", id |-> JNull, ok |-> TRUE,
      jobid |-> NULLS, result |-> FALSE]}
    \cup {[method |-> "client.show_message", id |-> JNull, ok |-> b,
           jobid |-> NULLS, result |-> FALSE] : b \in BOOLEAN}

NoMsg == [method |-> "", id |-> JAbsent, ok |-> FALSE, jobid |-> NULLS,
          result |-> FALSE]

\* responses to mining.subscribe
SubTimeout == [kind |-> "timeout", sid |-> NULLS, enonce1 |-> NULLS,
               nonce2 |-> JNotInt]
SubError == [kind |-> "error", sid |-> NULLS, enonce1 |-> NULLS,
             nonce2 |-> JNotInt]
NoReply == SubTimeout

SubArrays(sids, enonces, nonce2s) ==
    {[kind |-> "array", sid |-> s, enonce1 |-> e, nonce2 |-> n] :
        s \in sids, e \in enonces, n \in nonce2s}

(* ------------------------------- Init --------------------------------- *)
\* proxy_mode: the proxy_instance is ckzalloc'ed (all zero) and nothing is
\* connected yet
Init ==
    /\ notify_instances = <<>>
    /\ current_notify = NULL
    /\ notify_id = 0
    /\ notified = FALSE
    /\ shares = <<>>
    /\ share_id = 0
    /\ psends = <<>>
    /\ sessionid = NULLS
    /\ enonce1 = NULLS
    /\ nonce1len = 0
    /\ nonce2len = 0
    /\ no_sessionid = FALSE
    /\ no_params = FALSE
    /\ id = 0
    /\ sock = "closed"
    /\ buf = NoMsg
    /\ now = 0
    /\ ticks = 0
    /\ started = FALSE
    /\ rpc = "connect"
    /\ spc = "wait"
    /\ smsg = <<>>
    /\ sjobid = NULLS
    /\ cpc = "start"
    /\ cval = <<>>
    /\ crashed = FALSE
    /\ wire = <<>>
    /\ sfound = {}
    /\ stried = FALSE
    /\ sconn = 0
    /\ sfconn = 0
    /\ psend_lock = "free"
    /\ psend_cond = FALSE
    /\ accepted = <<>>
    /\ appended = <<>>
    /\ taken = <<>>
    /\ sub_trace = <<>>
    /\ sub_reconnects = 0
    /\ sub_reply = NoReply
    /\ conn = 0
    /\ diff = 0
    /\ diffed = FALSE
    /\ retries = 0
    /\ sig = {}
    /\ pending = 0
    /\ reqs = {}
    /\ recv_writes = {}
    /\ alive = <<>>
    /\ served = NULL
    /\ mode_ret = NULL
    /\ proxy = FALSE
    /\ nservers = 0
    /\ sel_i = 0
    /\ si = NULL
    /\ mpc = "generator"

(* ------------------- startup and reconnect_stratum -------------------- *)
\* where a failed attempt goes: reconnect_stratum loops for ever, proxy_mode
\* leaves the endpoint dead
Retry == IF started THEN "connect" ELSE "dead"

\* connect_proxy in proxy_mode, and close + connect_proxy at the head of the
\* loop of reconnect_stratum; a new call of subscribe_stratum follows
connect_proxy_to(nconn) ==
    /\ ~crashed /\ rpc = "connect"
    /\ \/ /\ sock' = "open"
          /\ conn' = nconn
          /\ rpc' = "subscribe"
          /\ sub_trace' = <<>>
          /\ sub_reconnects' = 0
          /\ sub_reply' = NoReply
          /\ reqs' = {}
       \/ /\ sock' = "closed"
          /\ rpc' = Retry
          /\ UNCHANGED <<conn, subVars, reqs>>
    /\ UNCHANGED <<notifyVars, shareVars, psends, sessionVars, id, buf,
                   clockVars, started, sendVars, ctlVars, crashed, accepted,
                   diffVars, sigVars, retries, selVars, recv_writes>>

\* the connections are numbered in the order they are made
connect_proxy == connect_proxy_to(conn + 1)

\* subscribe_stratum: build the request with proxi->id++, which leaves
\* the counter at nid, and send_json_msg
subscribe_stratum_write(nid) ==
    /\ ~crashed /\ rpc = "subscribe"
    /\ id' = nid
    /\ \/ /\ sock = "open"
          /\ rpc' = "parse_subscribe"
          /\ reqs' = reqs \cup {id}
          /\ recv_writes' = IF started
                            THEN recv_writes \cup {"mining.subscribe"}
                            ELSE recv_writes
          /\ UNCHANGED sock
       \/ /\ sock' = "closed"
          /\ rpc' = Retry
          /\ UNCHANGED reqVars
    /\ UNCHANGED <<notifyVars, shareVars, psends, sessionVars, buf, conn,
                   clockVars, started, sendVars, ctlVars, crashed, accepted,
                   subVars,
                   diffVars, sigVars, retries, selVars>>

\* the request ids up to maxreq
subscribe_stratum_send(maxreq) ==
    id < maxreq /\ subscribe_stratum_write(id + 1)

\* subscribe_stratum: parse_subscribe on the response, and on failure the
\* fallback and the connect_proxy before the retry, which makes the
\* connection nconn
subscribe_stratum_parse(Replies, nconn) ==
    /\ ~crashed /\ rpc = "parse_subscribe"
    /\ \E r \in Replies :
        /\ (r.kind # "timeout") => sock = "open"
        /\ LET p == parse_subscribe(r, sessionid, enonce1, nonce1len,
                                    nonce2len, no_sessionid, no_params)
               f == subscribe_fallback(p.sessionid, no_sessionid, no_params)
               form == subscribe_form(sessionid, no_params)
           IN  /\ enonce1' = p.enonce1
               /\ nonce1len' = p.nonce1len
               /\ nonce2len' = p.nonce2len
               /\ sub_trace' = Append(sub_trace, [form |-> form, ok |-> p.ret])
               /\ sub_reply' = r
               /\ IF p.ret
                  THEN /\ sessionid' = p.sessionid
                       /\ rpc' = "auth"
                       /\ UNCHANGED <<no_sessionid, no_params, sock, conn,
                                      sub_reconnects, reqs>>
                  ELSE /\ sessionid' = f.sessionid
                       /\ no_sessionid' = f.no_sessionid
                       /\ no_params' = f.no_params
                       /\ IF f.giveup
                          THEN /\ sock' = "closed"
                               /\ rpc' = Retry
                               /\ UNCHANGED <<conn, sub_reconnects, reqs>>
                          ELSE \/ /\ sock' = "open"
                                  /\ conn' = nconn
                                  /\ sub_reconnects' = sub_reconnects + 1
                                  /\ rpc' = "subscribe"
                                  /\ reqs' = {}
                               \/ /\ sock' = "closed"
                                  /\ rpc' = Retry
                                  /\ UNCHANGED <<conn, sub_reconnects, reqs>>
    /\ UNCHANGED <<notifyVars, shareVars, psends, id, buf, clockVars, started,
                   sendVars, ctlVars, crashed, accepted,
                   diffVars, sigVars, retries, selVars, recv_writes>>

subscribe_stratum_reply(Replies) == subscribe_stratum_parse(Replies, conn + 1)

\* auth_stratum: build mining.authorize with proxi->id++, which leaves the
\* counter at nid, and send_json_msg
auth_stratum_write(nid) ==
    /\ ~crashed /\ rpc = "auth"
    /\ id' = nid
    /\ \/ /\ sock = "open"
          /\ rpc' = "auth_read"
          /\ reqs' = reqs \cup {id}
          /\ recv_writes' = IF started
                            THEN recv_writes \cup {"mining.authorize"}
                            ELSE recv_writes
          /\ UNCHANGED sock
       \/ /\ sock' = "closed"
          /\ rpc' = Retry
          /\ UNCHANGED reqVars
    /\ sub_trace' = <<>>
    /\ sub_reconnects' = 0
    /\ sub_reply' = NoReply
    /\ UNCHANGED <<notifyVars, shareVars, psends, sessionVars, buf, conn,
                   clockVars, started, sendVars, ctlVars, crashed, accepted,
                   diffVars, sigVars, retries, selVars>>

\* the request ids up to maxreq
auth_stratum_send(maxreq) ==
    id < maxreq /\ auth_stratum_write(id + 1)

(* --------------------------- parse_method ----------------------------- *)
\* HASH_ADD_INT of a new notify_instance
\* the rows of ni->merklehash the copy loop writes for a Merkle array of
\* n entries: for (i = 0; i < merkles; i++) memcpy(&ni->merklehash[i][0]..)
merkle_rows(n) == 0..(n - 1)

\* the copy loop wrote past merklehash[15], outside the notify_instance
MerkleOverflow(m) ==
    /\ m.method = "mining.notify" /\ m.ok
    /\ \E r \in merkle_rows(m.merkles) : r >= MerkleRows

\* what a write outside the notify_instance may do to the process
OverflowResults(m) == IF MerkleOverflow(m) THEN BOOLEAN ELSE {FALSE}

parse_notify_add(tbl, nid, m, t, c) ==
    Append(tbl, [id |-> nid, jobid |-> m.jobid, notify_time |-> t, conn |-> c,
                 merkles |-> m.merkles,
                 merklehash |-> merkle_rows(m.merkles)])

\* a notify_id that is not incremented
notify_id_keep(nid) == nid

\* proxi->notify_id++ : the value the counter is left with
notify_id_next(nid) == nid + 1

\* parse_diff: the value proxi->diff is left with
parse_diff(old, d) == IF d = 0 \/ d = old THEN old ELSE d

\* parse_method on the line m: its return value and the notification and
\* difficulty state as it leaves it; sent is what send_json_msg returns when
\* the method is client.get_version, wrote tells that it was called
parse_method(m, sent) ==
    IF m.method = "mining.notify" /\ m.ok
    THEN [ret |-> TRUE,
          notify_instances |->
              parse_notify_add(notify_instances, notify_id, m, now, conn),
          current_notify |-> notify_id,
          notify_id |-> notify_id_next(notify_id),
          notified |-> TRUE,
          accepted |-> Append(accepted, notify_id),
          diff |-> diff, diffed |-> diffed, wrote |-> FALSE]
    ELSE [ret |-> CASE m.method = "mining.set_difficulty" -> TRUE
                    [] m.method = "client.reconnect" -> TRUE
                    [] m.method = "client.get_version" -> sent
                    [] m.method = "client.show_message" -> m.ok
                    [] OTHER -> FALSE,
          notify_instances |-> notify_instances,
          current_notify |-> current_notify,
          notify_id |-> notify_id,
          notified |-> IF m.method = "mining.notify" THEN FALSE ELSE notified,
          accepted |-> accepted,
          diff |-> IF m.method = "mining.set_difficulty"
                   THEN parse_diff(diff, m.diff) ELSE diff,
          diffed |-> IF m.method = "mining.set_difficulty"
                     THEN (diffed \/ parse_diff(diff, m.diff) # diff)
                     ELSE diffed,
          wrote |-> m.method = "client.get_version"]

\* the results send_json_msg may give for the reply to the line m
SendResults(m) ==
    IF m.method = "client.get_version" THEN BOOLEAN ELSE {TRUE}

\* the notifications the environment may still send
MayArrive(m, maxnotify) ==
    (m.method = "mining.notify" /\ m.ok) => notify_id < maxnotify

\* auth_stratum: one turn of the read loop, and after the loop the result
\* of the line left in cs->buf
auth_stratum_read(M, maxnotify) ==
    /\ ~crashed /\ rpc = "auth_read"
    /\ \/ /\ rpc' = Retry
          /\ sig' = {}
          /\ UNCHANGED <<notifyVars, accepted, buf, started, diffVars,
                         pending, recv_writes, crashed>>
       \/ /\ sock = "open"
          /\ \E m \in M : \E sent \in SendResults(m) :
                /\ MayArrive(m, maxnotify)
                /\ crashed' \in OverflowResults(m)
                /\ LET pm == parse_method(m, sent)
                   IN  /\ buf' = m
                       /\ notify_instances' = pm.notify_instances
                       /\ current_notify' = pm.current_notify
                       /\ notify_id' = pm.notify_id
                       /\ notified' = pm.notified
                       /\ accepted' = pm.accepted
                       /\ diff' = pm.diff
                       /\ diffed' = pm.diffed
                       /\ pending' = pending + Len(pm.accepted)
                                             - Len(accepted)
                       /\ recv_writes' =
                            IF pm.wrote /\ started
                            THEN recv_writes \cup {m.method}
                            ELSE recv_writes
                       /\ IF pm.ret
                          THEN /\ rpc' = "auth_read"
                               /\ sig' = {}
                               /\ UNCHANGED started
                          ELSE IF m.result
                          THEN /\ rpc' = "age"
                               /\ started' = TRUE
                               /\ sig' = IF started THEN {"subscribe"}
                                         ELSE {}
                          ELSE /\ rpc' = Retry
                               /\ sig' = {}
                               /\ UNCHANGED started
    /\ UNCHANGED <<shareVars, psends, sessionVars, id, sockVars, clockVars,
                   sendVars, ctlVars, subVars, retries, reqs, selVars>>

(* ----------------------------- proxy_recv ----------------------------- *)
\* the top of the loop: now = time(NULL), then both aging passes
proxy_recv_age ==
    /\ ~crashed /\ started /\ rpc = "age"
    /\ notify_instances' = age_notifies(notify_instances, now)
    /\ shares' = age_shares(shares, now)
    /\ rpc' = "read"
    /\ retries' = 0
    /\ sig' = {}
    /\ UNCHANGED <<current_notify, notify_id, notified, share_id, psends,
                   sessionVars, id, sockVars, buf, clockVars, started,
                   sendVars, ctlVars, crashed, accepted, subVars, diffVars,
                   pending, reqVars, selVars>>

\* parse_share on the line m: the share table as it leaves it
parse_share(tbl, m) ==
    IF m.id = JAbsent THEN tbl
    ELSE LET i == HASH_FIND_INT(tbl, json_integer_value(m.id))
         IN  IF i = 0 THEN tbl ELSE HASH_DEL(tbl, i)

\* a read loop that gives up one empty read late
proxy_recv_empty_late ==
    /\ ~crashed /\ started /\ rpc = "read"
    /\ retries' = retries + 1
    /\ rpc' = IF retries + 1 < MaxRetries + 1 THEN "read" ELSE "reconnect"
    /\ UNCHANGED <<notifyVars, shareVars, psends, sessionVars, id, sockVars,
                   buf, clockVars, started, sendVars, ctlVars, crashed,
                   accepted, subVars, diffVars, sigVars, reqVars, selVars>>

\* the read loop when read_socket_line returns 0: ++retries, and at 24 the
\* loop ends with ret = 0 and reconnect_stratum is called
proxy_recv_empty ==
    /\ ~crashed /\ started /\ rpc = "read"
    /\ retries' = retries + 1
    /\ rpc' = IF retries + 1 < MaxRetries THEN "read" ELSE "reconnect"
    /\ UNCHANGED <<notifyVars, shareVars, psends, sessionVars, id, sockVars,
                   buf, clockVars, started, sendVars, ctlVars, crashed,
                   accepted, subVars, diffVars, sigVars, reqVars, selVars>>

\* the read that ends the read loop and what follows it: ret < 0 calls
\* reconnect_stratum; a line goes to parse_method and, when that returns
\* false, to parse_share.  proxi->notified is tested without a lock: while
\* proxy_loop has not yet written notified = false, that write may land
\* between parse_method and the test.
proxy_recv_read(M, maxnotify) ==
    /\ ~crashed /\ started /\ rpc = "read"
    /\ \/ /\ rpc' = "reconnect"
          /\ UNCHANGED <<notifyVars, accepted, buf, shares, diffVars,
                         sigVars, recv_writes, cpc, crashed>>
       \/ /\ sock = "open"
          /\ \E m \in M : \E sent \in SendResults(m) :
                /\ MayArrive(m, maxnotify)
                /\ crashed' \in OverflowResults(m)
                /\ LET pm == parse_method(m, sent)
                       added == Len(pm.accepted) - Len(accepted)
                   IN  /\ buf' = m
                       /\ notify_instances' = pm.notify_instances
                       /\ current_notify' = pm.current_notify
                       /\ notify_id' = pm.notify_id
                       /\ accepted' = pm.accepted
                       /\ diff' = pm.diff
                       /\ recv_writes' = IF pm.wrote
                                         THEN recv_writes \cup {m.method}
                                         ELSE recv_writes
                       /\ shares' = IF pm.ret THEN shares
                                    ELSE parse_share(shares, m)
                       /\ diffed' = IF pm.ret THEN FALSE ELSE pm.diffed
                       /\ \/ /\ notified' = IF pm.ret THEN FALSE
                                              ELSE pm.notified
                             /\ sig' = IF pm.ret
                                       THEN {s \in {"notify", "diff"} :
                                               \/ s = "notify" /\ pm.notified
                                               \/ s = "diff" /\ pm.diffed}
                                       ELSE {}
                             /\ pending' = IF pm.ret /\ pm.notified THEN 0
                                           ELSE pending + added
                             /\ UNCHANGED cpc
                          \/ /\ cpc = "start" /\ pm.ret /\ pm.notified
                             /\ cpc' = "accept"
                             /\ notified' = FALSE
                             /\ sig' = {s \in {"diff"} : pm.diffed}
                             /\ pending' = pending + added
                /\ rpc' = "age"
    /\ UNCHANGED <<share_id, psends, sessionVars, id, sockVars, clockVars,
                   started, sendVars, cval, appended, subVars, retries,
                   reqs, selVars>>

\* reconnect_stratum: every notification is deleted and freed
reconnect_stratum_flush ==
    /\ ~crashed /\ started /\ rpc = "reconnect"
    /\ notify_instances' = <<>>
    /\ rpc' = "connect"
    /\ pending' = 0
    /\ UNCHANGED <<current_notify, notify_id, notified, shareVars, psends,
                   sessionVars, id, sockVars, buf, clockVars, started,
                   sendVars, ctlVars, crashed, accepted, subVars,
                   diffVars, sig, retries, reqVars, selVars>>

(* ------------------- generator, server_mode, proxy_mode ---------------- *)
\* what probing one endpoint can come to: it passed every step ("alive"),
\* it failed after its proxy_instance was allocated ("dead"), or it failed
\* before that, leaving si->data NULL ("nodata", proxy_mode only)
ProbeResults(p) == IF p THEN {"alive", "dead", "nodata"} ELSE {"alive", "dead"}

\* the number of endpoints marked alive
AliveCount(a) == Cardinality({k \in 1..Len(a) : a[k] = "alive"})

\* generator: the configuration decides which mode runs
generator(maxservers) ==
    /\ mpc = "generator"
    /\ \E p \in BOOLEAN, n \in 0..maxservers :
        /\ proxy' = p
        /\ nservers' = n
    /\ sel_i' = 0
    /\ mpc' = "probe"
    /\ UNCHANGED <<notifyVars, shareVars, psends, sessionVars, id, sockVars,
                   buf, clockVars, started, rpc, sendVars, ctlVars, crashed,
                   accepted, subVars, diffVars, sigVars, retries, reqVars,
                   alive, served, mode_ret, si>>

\* one iteration of the probing loop: si = servers[i], the steps, i++
mode_probe ==
    /\ mpc = "probe" /\ sel_i < nservers
    /\ si' = sel_i
    /\ \E r \in ProbeResults(proxy) : alive' = Append(alive, r)
    /\ sel_i' = sel_i + 1
    /\ UNCHANGED <<notifyVars, shareVars, psends, sessionVars, id, sockVars,
                   buf, clockVars, started, rpc, sendVars, ctlVars, crashed,
                   accepted, subVars, diffVars, sigVars, retries, reqVars,
                   served, mode_ret, proxy, nservers, mpc>>

\* after the probing loop: if (!alive) goto out, with ret still 1
mode_alive ==
    /\ mpc = "probe" /\ sel_i = nservers
    /\ sel_i' = 0
    /\ IF AliveCount(alive) = 0
          THEN mpc' = "out" /\ mode_ret' = 1
          ELSE mpc' = "select" /\ mode_ret' = mode_ret
    /\ UNCHANGED <<notifyVars, shareVars, psends, sessionVars, id, sockVars,
                   buf, clockVars, started, rpc, sendVars, ctlVars, crashed,
                   accepted, subVars, diffVars, sigVars, retries, reqVars,
                   alive, served, proxy, nservers, si>>

\* the selection loop, for (i = 0; i < n; si = servers[i], i++): the body
\* tests the endpoint si points to, and only the increment moves si
mode_select ==
    /\ mpc = "select"
    /\ IF sel_i < nservers /\ alive[si + 1] # "alive"
          THEN /\ si' = sel_i
               /\ sel_i' = sel_i + 1
               /\ UNCHANGED <<served, mpc>>
          ELSE /\ served' = si
               /\ mpc' = "serve"
               /\ UNCHANGED <<si, sel_i>>
    /\ UNCHANGED <<notifyVars, shareVars, psends, sessionVars, id, sockVars,
                   buf, clockVars, started, rpc, sendVars, ctlVars, crashed,
                   accepted, subVars, diffVars, sigVars, retries, reqVars,
                   alive, mode_ret, proxy, nservers>>

\* gen_loop / proxy_loop on the served endpoint returns: 0 on a shutdown
\* request, 1 when accept failed
mode_serve ==
    /\ mpc = "serve"
    /\ \E r \in {0, 1} : mode_ret' = r
    /\ sel_i' = 0
    /\ mpc' = "out"
    /\ UNCHANGED <<notifyVars, shareVars, psends, sessionVars, id, sockVars,
                   buf, clockVars, started, rpc, sendVars, ctlVars, crashed,
                   accepted, subVars, diffVars, sigVars, retries, reqVars,
                   alive, served, proxy, nservers, si>>

\* out: every endpoint is released and the mode returns ret. proxy_mode
\* reads proxi->enonce1 through si->data, which is NULL for an endpoint that
\* failed before its proxy_instance was allocated: the process may die there
mode_out ==
    /\ mpc = "out"
    /\ IF proxy /\ \E k \in 1..Len(alive) : alive[k] = "nodata"
          THEN crashed' \in BOOLEAN
          ELSE crashed' = crashed
    /\ mpc' = IF crashed' THEN "died" ELSE "returned"
    /\ UNCHANGED <<notifyVars, shareVars, psends, sessionVars, id, sockVars,
                   buf, clockVars, started, rpc, sendVars, ctlVars,
                   accepted, subVars, diffVars, sigVars, retries, reqVars,
                   alive, served, mode_ret, proxy, nservers, sel_i, si>>

(* ----------------------------- proxy_send ----------------------------- *)
\* the head of the queue is detached under psend_lock
proxy_send_take ==
    /\ ~crashed /\ started /\ spc = "wait" /\ psends # <<>>
    /\ smsg' = Head(psends)
    /\ psends' = Tail(psends)
    /\ taken' = Append(taken, Head(psends).id)
    /\ spc' = "lookup"
    /\ UNCHANGED <<notifyVars, shareVars, sessionVars, id, sockVars, buf,
                   clockVars, started, rpc, sjobid, wire, sfound, ctlVars,
                   crashed, accepted, subVars, stried, sconn, sfconn,
                   lockVars, moreVars>>

\* The same critical section of proxy_send step by step.
\* mutex_lock(&proxi->psend_lock) at the top of the loop
proxy_send_lock ==
    /\ ~crashed /\ started /\ spc = "wait" /\ psend_lock = "free"
    /\ psend_lock' = "send"
    /\ spc' = "check"
    /\ UNCHANGED <<notifyVars, shareVars, psends, sessionVars, id, sockVars,
                   buf, clockVars, started, rpc, smsg, sjobid, wire, sfound,
                   taken, stried, sconn, sfconn, psend_cond, ctlVars, crashed,
                   accepted, subVars, moreVars>>

\* if (!proxi->psends) pthread_cond_wait(...): the wait gives the lock up
\* and blocks in one step
proxy_send_check ==
    /\ ~crashed /\ started /\ spc = "check"
    /\ IF psends = <<>>
          THEN /\ psend_lock' = "free"
               /\ psend_cond' = FALSE
               /\ spc' = "cwait"
          ELSE /\ spc' = "dequeue"
               /\ UNCHANGED lockVars
    /\ UNCHANGED <<notifyVars, shareVars, psends, sessionVars, id, sockVars,
                   buf, clockVars, started, rpc, smsg, sjobid, wire, sfound,
                   taken, stried, sconn, sfconn, ctlVars, crashed, accepted,
                   subVars, moreVars>>

\* pthread_cond_wait is woken by a signal
proxy_send_wake ==
    /\ ~crashed /\ started /\ spc = "cwait" /\ psend_cond
    /\ psend_cond' = FALSE
    /\ spc' = "relock"
    /\ UNCHANGED <<notifyVars, shareVars, psends, sessionVars, id, sockVars,
                   buf, clockVars, started, rpc, smsg, sjobid, wire, sfound,
                   taken, stried, sconn, sfconn, psend_lock, ctlVars, crashed,
                   accepted, subVars, moreVars>>

\* pthread_cond_wait wakes without a signal
proxy_send_spurious ==
    /\ ~crashed /\ started /\ spc = "cwait" /\ ~psend_cond
    /\ spc' = "relock"
    /\ UNCHANGED <<notifyVars, shareVars, psends, sessionVars, id, sockVars,
                   buf, clockVars, started, rpc, smsg, sjobid, wire, sfound,
                   taken, stried, sconn, sfconn, lockVars, ctlVars, crashed,
                   accepted, subVars, moreVars>>

\* pthread_cond_wait takes the lock again before it returns
proxy_send_relock ==
    /\ ~crashed /\ started /\ spc = "relock" /\ psend_lock = "free"
    /\ psend_lock' = "send"
    /\ spc' = "dequeue"
    /\ UNCHANGED <<notifyVars, shareVars, psends, sessionVars, id, sockVars,
                   buf, clockVars, started, rpc, smsg, sjobid, wire, sfound,
                   taken, stried, sconn, sfconn, psend_cond, ctlVars, crashed,
                   accepted, subVars, moreVars>>

\* msg = proxi->psends; if (msg) DL_DELETE; mutex_unlock; if (!msg) continue
proxy_send_dequeue ==
    /\ ~crashed /\ started /\ spc = "dequeue"
    /\ IF psends # <<>>
          THEN /\ smsg' = Head(psends)
               /\ psends' = Tail(psends)
               /\ taken' = Append(taken, Head(psends).id)
               /\ spc' = "lookup"
          ELSE /\ spc' = "wait"
               /\ UNCHANGED <<smsg, psends, taken>>
    /\ psend_lock' = "free"
    /\ UNCHANGED <<notifyVars, shareVars, sessionVars, id, sockVars, buf,
                   clockVars, started, rpc, sjobid, wire, sfound, stried,
                   sconn, sfconn, psend_cond, ctlVars, crashed, accepted,
                   subVars, moreVars>>

\* a lookup that takes the most recent notification whatever the key
proxy_send_jobid_latest(tbl, key) ==
    IF tbl = <<>> THEN NULLS ELSE tbl[Len(tbl)].jobid

\* HASH_FIND_INT under notify_lock and strdup(ni->jobid): the upstream job
\* id for the local job id, NULLS when no notification has that id
proxy_send_jobid(tbl, key) ==
    LET i == HASH_FIND_INT(tbl, key)
    IN  IF i = 0 THEN NULLS ELSE tbl[i].jobid

proxy_send_lookup ==
    /\ ~crashed /\ started /\ spc = "lookup"
    /\ sjobid' = proxy_send_jobid(notify_instances, smsg.jobid)
    /\ sfound' = {e.jobid : e \in {x \in Range(notify_instances) :
                                        x.id = smsg.jobid}}
    /\ sfconn' = LET i == HASH_FIND_INT(notify_instances, smsg.jobid)
                 IN  IF i = 0 THEN 0 ELSE notify_instances[i].conn
    /\ spc' = "send"
    /\ UNCHANGED <<notifyVars, shareVars, psends, sessionVars, id, sockVars,
                   buf, clockVars, started, rpc, smsg, wire, taken, ctlVars,
                   crashed, accepted, subVars, stried, sconn, lockVars,
                   moreVars>>

\* the mining.submit built from msg and jobid
mining_submit(msg, jobid, c) ==
    [id |-> msg.id, jobid |-> jobid, nonce |-> msg.nonce, conn |-> c]

\* with a jobid: json_pack and send_json_msg, ret is its result; without:
\* nothing is sent and ret is read uninitialised.  Then msg is freed, and
\* !ret leads to the close of cs->fd.
proxy_send_write ==
    /\ ~crashed /\ started /\ spc = "send"
    /\ \E ret \in BOOLEAN :
        /\ (sjobid # NULLS /\ ret) => sock = "open"
        /\ wire' = IF sjobid # NULLS /\ ret
                   THEN Append(wire, mining_submit(smsg, sjobid, conn))
                   ELSE wire
        /\ spc' = IF ret THEN "wait" ELSE "close"
        /\ stried' = (~ret /\ sjobid # NULLS)
        /\ sconn' = IF ret THEN 0 ELSE conn
    /\ smsg' = <<>>
    /\ sjobid' = NULLS
    /\ sfound' = {}
    /\ sfconn' = 0
    /\ UNCHANGED <<notifyVars, shareVars, psends, sessionVars, id, sockVars,
                   buf, clockVars, started, rpc, taken, ctlVars, crashed,
                   accepted, subVars, lockVars,
                   moreVars>>

\* if (!ret) close(cs->fd): the descriptor cs holds when the close runs
proxy_send_close ==
    /\ ~crashed /\ started /\ spc = "close"
    /\ sock' = "closed"
    /\ spc' = "wait"
    /\ stried' = FALSE
    /\ sconn' = 0
    /\ UNCHANGED <<notifyVars, shareVars, psends, sessionVars, id, conn, buf,
                   clockVars, started, rpc, smsg, sjobid, wire, sfound, taken,
                   sfconn, ctlVars, crashed, accepted, subVars, lockVars,
                   moreVars>>

(* ----------------------------- proxy_loop ----------------------------- *)
\* before the accept loop: proxi->notified = false
proxy_loop_start ==
    /\ ~crashed /\ started /\ cpc = "start"
    /\ notified' = FALSE
    /\ cpc' = "accept"
    /\ pending' = 0
    /\ UNCHANGED <<notify_instances, current_notify, notify_id, shareVars,
                   psends, sessionVars, id, sockVars, buf, clockVars, started,
                   rpc, sendVars, cval, appended, crashed, accepted,
                   subVars,
                   diffVars, sig, retries, reqVars, selVars>>

\* getnotify: send_notify reads *proxi->current_notify.  A NULL pointer
\* kills the process; a pointer to a freed entry is undefined: the freed
\* memory may still hold the notification, or the process dies.
send_notify ==
    /\ ~crashed /\ started /\ cpc = "accept"
    /\ IF current_notify = NULL
       THEN crashed' = TRUE
       ELSE IF \E e \in Range(notify_instances) : e.id = current_notify
       THEN UNCHANGED crashed
       ELSE crashed' \in BOOLEAN
    /\ UNCHANGED <<notifyVars, shareVars, psends, sessionVars, id, sockVars,
                   buf, clockVars, started, rpc, sendVars, cpc, cval,
                   appended, accepted, subVars,
                   moreVars>>

\* submit_share: the fields recorded in the share_msg
share_entry(val, n, t) ==
    [id |-> n, client_id |-> json_integer_value(val.client_id),
     msg_id |-> json_integer_value(val.msg_id), submit_time |-> t]

\* a submit_share that sets id but leaves client_id and msg_id in val
share_json_keep(val, n) ==
    [k \in DOMAIN val \cup {"id"} |-> IF k = "id" THEN n ELSE val[k]]

\* submit_share: val after json_object_del of client_id and msg_id and
\* json_object_set of id
share_json(val, n) ==
    [k \in (DOMAIN val \ {"client_id", "msg_id"}) \cup {"id"} |->
        IF k = "id" THEN n ELSE val[k]]

\* proxi->share_id++ : the value the counter is left with
share_id_next(n) == n + 1

\* submit_share up to the id set in val: the share enters the hash table
\* under share_lock
submit_share_track(Subs, maxshare) ==
    /\ ~crashed /\ started /\ cpc = "accept" /\ share_id < maxshare
    /\ \E val \in Subs :
        /\ shares' = Append(shares, share_entry(val, share_id, now))
        /\ cval' = share_json(val, share_id)
    /\ share_id' = share_id_next(share_id)
    /\ cpc' = "enqueue"
    /\ UNCHANGED <<notifyVars, psends, sessionVars, id, sockVars, buf,
                   clockVars, started, rpc, sendVars, appended, crashed,
                   accepted, subVars,
                   moreVars>>

\* a list insertion at the head
DL_PREPEND(q, msg) == <<msg>> \o q

\* DL_APPEND(proxi->psends, msg)
DL_APPEND(q, msg) == Append(q, msg)

\* submit_share: the message joins the send queue under psend_lock
submit_share_append ==
    /\ ~crashed /\ started /\ cpc = "enqueue"
    /\ psends' = DL_APPEND(psends, cval)
    /\ appended' = Append(appended, cval.id)
    /\ cval' = <<>>
    /\ cpc' = "accept"
    /\ UNCHANGED <<notifyVars, shareVars, sessionVars, id, sockVars, buf,
                   clockVars, started, rpc, sendVars, crashed, accepted,
                   subVars,
                   moreVars>>

\* The same critical section of submit_share step by step.
\* mutex_lock(&proxi->psend_lock)
submit_share_lock ==
    /\ ~crashed /\ started /\ cpc = "enqueue" /\ psend_lock = "free"
    /\ psend_lock' = "loop"
    /\ cpc' = "append"
    /\ UNCHANGED <<notifyVars, shareVars, psends, sessionVars, id, sockVars,
                   buf, clockVars, started, rpc, spc, smsg, sjobid, wire,
                   sfound, taken, stried, sconn, sfconn, psend_cond, cval,
                   appended, crashed, accepted, subVars, moreVars>>

\* a pthread_cond_signal that wakes nobody
pthread_cond_signal_lost(c, waiting) == c

\* pthread_cond_signal: wakes the thread blocked in pthread_cond_wait, and
\* has no effect when none is
pthread_cond_signal(c, waiting) == c \/ waiting

\* DL_APPEND and pthread_cond_signal, with the lock held
submit_share_signal ==
    /\ ~crashed /\ started /\ cpc = "append"
    /\ psends' = DL_APPEND(psends, cval)
    /\ appended' = Append(appended, cval.id)
    /\ cval' = <<>>
    /\ psend_cond' = pthread_cond_signal(psend_cond, spc = "cwait")
    /\ cpc' = "unlock"
    /\ UNCHANGED <<notifyVars, shareVars, sessionVars, id, sockVars, buf,
                   clockVars, started, rpc, spc, smsg, sjobid, wire, sfound,
                   taken, stried, sconn, sfconn, psend_lock, crashed,
                   accepted, subVars, moreVars>>

\* mutex_unlock(&proxi->psend_lock)
submit_share_unlock ==
    /\ ~crashed /\ started /\ cpc = "unlock"
    /\ psend_lock' = "free"
    /\ cpc' = "accept"
    /\ UNCHANGED <<notifyVars, shareVars, psends, sessionVars, id, sockVars,
                   buf, clockVars, started, rpc, spc, smsg, sjobid, wire,
                   sfound, taken, stried, sconn, sfconn, psend_cond, cval,
                   appended, crashed, accepted, subVars, moreVars>>

(* ------------------------------ the clock ----------------------------- *)
Tick(Deltas, maxticks) ==
    /\ ~crashed /\ ticks < maxticks
    /\ \E d \in Deltas : now' = now + d
    /\ ticks' = ticks + 1
    /\ UNCHANGED <<notifyVars, shareVars, psends, sessionVars, id, sockVars,
                   buf, started, rpc, sendVars, ctlVars, crashed, accepted,
                   subVars,
                   moreVars>>

(* --------------------------- specifications --------------------------- *)
\* The three threads with the notification traffic: notifications and the
\* authorize outcome from the upstream, submissions for every local job id
\* from the stratifier.
AuthOk == [method |-> "", id |-> JAbsent, ok |-> FALSE, jobid |-> NULLS,
           result |-> TRUE]
AuthFail == [method |-> "", id |-> JAbsent, ok |-> FALSE, jobid |-> NULLS,
             result |-> FALSE]
NotifyTraffic == NotifyMsgs \cup {AuthOk}
NotifySubs ==
    [client_id : {7}, msg_id : {42}, jobid : 0..(MaxNotifyId - 1), nonce : {5}]
NotifySubReplies == {SubTimeout} \cup SubArrays({NULLS}, {"0a0b0c0d"}, {JInt(0, 4)})

Next ==
    \/ connect_proxy
    \/ subscribe_stratum_send(MaxReqId)
    \/ subscribe_stratum_reply(NotifySubReplies)
    \/ auth_stratum_send(MaxReqId)
    \/ auth_stratum_read(NotifyTraffic, MaxNotifyId)
    \/ proxy_recv_age
    \/ proxy_recv_read(NotifyTraffic, MaxNotifyId)
    \/ reconnect_stratum_flush
    \/ proxy_send_take
    \/ proxy_send_lookup
    \/ proxy_send_write
    \/ proxy_send_close
    \/ proxy_loop_start
    \/ send_notify
    \/ submit_share_track(NotifySubs, MaxShareId)
    \/ submit_share_append
    \/ Tick({NotifyAge + 1}, MaxTicks)

Spec == Init /\ [][Next]_vars

\* The three threads with the share traffic: one notification, results
\* for every share id, with a null id and without id, a line with a method
\* the generator does not know; submissions with and without a known job.
ShareTraffic ==
    {m \in NotifyMsgs : m.jobid = "ja"}
    \cup {m \in ResultMsgs : m.result /\ m.id < ShareMaxShareId}
    \cup OtherMethodMsgs
ShareSubs ==
    [client_id : ClientIds, msg_id : MsgIds, jobid : {0, 1}, nonce : {5}]
ShareSubReplies == {SubTimeout} \cup SubArrays({NULLS}, {"0a0b0c0d"}, {JInt(0, 4)})

NextShare ==
    \/ connect_proxy
    \/ subscribe_stratum_send(ShareMaxReqId)
    \/ subscribe_stratum_reply(ShareSubReplies)
    \/ auth_stratum_send(ShareMaxReqId)
    \/ auth_stratum_read(ShareTraffic, ShareMaxNotifyId)
    \/ proxy_recv_age
    \/ proxy_recv_read(ShareTraffic, ShareMaxNotifyId)
    \/ reconnect_stratum_flush
    \/ proxy_send_take
    \/ proxy_send_lookup
    \/ proxy_send_write
    \/ proxy_send_close
    \/ proxy_loop_start
    \/ send_notify
    \/ submit_share_track(ShareSubs, ShareMaxShareId)
    \/ submit_share_append
    \/ Tick({ShareAge + 1}, ShareMaxTicks)

SpecShare == Init /\ [][NextShare]_vars

\* The receive loop alone on one connection: up to ten notifications, the
\* clock advancing by a second or by more than ten minutes between them.
AgeTraffic == {m \in NotifyMsgs : m.jobid = "ja"} \cup {AuthOk}
AgeSubReplies == SubArrays({NULLS}, {"0a0b0c0d"}, {JInt(0, 4)})

NextAge ==
    \/ connect_proxy
    \/ subscribe_stratum_send(AgeMaxReqId)
    \/ subscribe_stratum_reply(AgeSubReplies)
    \/ auth_stratum_send(AgeMaxReqId)
    \/ auth_stratum_read({AuthOk}, AgeMaxNotifyId)
    \/ proxy_recv_age
    \/ proxy_recv_read(AgeTraffic, AgeMaxNotifyId)
    \/ Tick({1, NotifyAge + 1}, AgeMaxTicks)

SpecAge == Init /\ [][NextAge]_vars

\* The subscribe handshake and the reconnects of the receive loop: responses
\* with and without session id, with a missing or a short enonce1, with
\* every nonce2 length around the limits, with a nonce2 length beyond 32
\* bits and with a nonce2 that is not an integer.
SubNonce2s ==
    {JNotInt} \cup {JInt(h, l) : h \in {0, 1}, l \in 0..SubMaxNonce2}
SubHandshakeReplies ==
    {SubTimeout, SubError}
    \cup SubArrays({NULLS, "s1"}, {NULLS, "0a0b0c0d", "0e0f"}, SubNonce2s)

NextSub ==
    \/ connect_proxy
    \/ subscribe_stratum_send(SubMaxReqId)
    \/ subscribe_stratum_reply(SubHandshakeReplies)
    \/ auth_stratum_send(SubMaxReqId)
    \/ auth_stratum_read({AuthOk, AuthFail}, 0)
    \/ proxy_recv_age
    \/ proxy_recv_read({AuthOk}, 0)
    \/ reconnect_stratum_flush

SpecSub == Init /\ [][NextSub]_vars

\* The handshake with responses that differ in the extranonce1 only: hex
\* strings of 1, 8, 29, 30, 31 and 32 characters, and a missing one.
Enonce1Replies ==
    {SubTimeout}
    \cup SubArrays({NULLS},
                   {NULLS, "0", "0a0b0c0d",
                    "0a0b0c0d0e0f0a0b0c0d0e0f0a0b0",
                    "0a0b0c0d0e0f0a0b0c0d0e0f0a0b0c",
                    "0a0b0c0d0e0f0a0b0c0d0e0f0a0b0c0",
                    "0a0b0c0d0e0f0a0b0c0d0e0f0a0b0c0d"},
                   {JInt(0, 4)})

NextEnonce1 ==
    \/ connect_proxy
    \/ subscribe_stratum_send(SubMaxReqId)
    \/ subscribe_stratum_reply(Enonce1Replies)
    \/ auth_stratum_send(SubMaxReqId)
    \/ auth_stratum_read({AuthOk, AuthFail}, 0)
    \/ proxy_recv_age
    \/ proxy_recv_read({AuthOk}, 0)
    \/ reconnect_stratum_flush

SpecEnonce1 == Init /\ [][NextEnonce1]_vars

\* Invalid payloads: subscribe responses with a session id and a bad or
\* missing enonce1 or nonce2 length, notifications with missing fields
\* among good ones.
InvalidMaxNotifyId == 2
InvalidMaxReqId == 4
InvalidReplies ==
    {SubTimeout, SubError}
    \cup SubArrays({NULLS, "s1"},
                   {NULLS, "0a0b0c0d", "0e0f",
                    "0a0b0c0d0e0f0a0b0c0d0e0f0a0b0c0d"},
                   {JNotInt, JInt(0, 3), JInt(0, 4), JInt(0, 9)})
InvalidTraffic ==
    {m \in NotifyMsgs : m.jobid = "ja"} \cup BadNotifyMsgs \cup {AuthOk}

NextInvalid ==
    \/ connect_proxy
    \/ subscribe_stratum_send(InvalidMaxReqId)
    \/ subscribe_stratum_reply(InvalidReplies)
    \/ auth_stratum_send(InvalidMaxReqId)
    \/ auth_stratum_read(InvalidTraffic, InvalidMaxNotifyId)
    \/ proxy_recv_age
    \/ proxy_recv_read(InvalidTraffic, InvalidMaxNotifyId)
    \/ reconnect_stratum_flush

SpecInvalid == Init /\ [][NextInvalid]_vars

\* Difficulty traffic: mining.set_difficulty with the values 0, 1 and 2 and
\* one notification, during auth_stratum and in the receive loop.
DiffMaxNotifyId == 1
DiffMaxReqId == 4
DiffTraffic ==
    DiffMsgs({0, 1, 2}) \cup {m \in NotifyMsgs : m.jobid = "ja"} \cup {AuthOk}
DiffSubReplies == {SubTimeout} \cup SubArrays({NULLS}, {"0a0b0c0d"}, {JInt(0, 4)})

NextDiff ==
    \/ connect_proxy
    \/ subscribe_stratum_send(DiffMaxReqId)
    \/ subscribe_stratum_reply(DiffSubReplies)
    \/ auth_stratum_send(DiffMaxReqId)
    \/ auth_stratum_read(DiffTraffic, DiffMaxNotifyId)
    \/ proxy_recv_age
    \/ proxy_recv_read(DiffTraffic, DiffMaxNotifyId)
    \/ reconnect_stratum_flush
    \/ proxy_loop_start

SpecDiff == Init /\ [][NextDiff]_vars

\* The receive loop with empty reads: every read may return a line, nothing
\* or an error.
StallMaxNotifyId == 2
StallMaxReqId == 4
StallTraffic == {m \in NotifyMsgs : m.jobid = "ja"} \cup {AuthOk}
StallSubReplies == {SubTimeout} \cup SubArrays({NULLS}, {"0a0b0c0d"}, {JInt(0, 4)})

NextStall ==
    \/ connect_proxy
    \/ subscribe_stratum_send(StallMaxReqId)
    \/ subscribe_stratum_reply(StallSubReplies)
    \/ auth_stratum_send(StallMaxReqId)
    \/ auth_stratum_read(StallTraffic, StallMaxNotifyId)
    \/ proxy_recv_age
    \/ proxy_recv_empty
    \/ proxy_recv_read(StallTraffic, StallMaxNotifyId)
    \/ reconnect_stratum_flush

SpecStall == Init /\ [][NextStall]_vars

\* Startup: the mode probes every configured endpoint and serves one.
MaxServers == 3

NextSelect ==
    \/ generator(MaxServers)
    \/ mode_probe
    \/ mode_alive
    \/ mode_select
    \/ mode_serve
    \/ mode_out

SpecSelect == Init /\ [][NextSelect]_vars

\* The three threads with the client.* requests of the upstream, one
\* notification and one share submission.
ClientMaxNotifyId == 1
ClientMaxReqId == 4
ClientMaxShareId == 1
ClientTraffic ==
    ClientMsgs \cup {m \in NotifyMsgs : m.jobid = "ja"} \cup {AuthOk}
ClientSubs == [client_id : ClientIds, msg_id : {42}, jobid : {0}, nonce : {5}]
ClientSubReplies == {SubTimeout} \cup SubArrays({NULLS}, {"0a0b0c0d"}, {JInt(0, 4)})

NextClient ==
    \/ connect_proxy
    \/ subscribe_stratum_send(ClientMaxReqId)
    \/ subscribe_stratum_reply(ClientSubReplies)
    \/ auth_stratum_send(ClientMaxReqId)
    \/ auth_stratum_read(ClientTraffic, ClientMaxNotifyId)
    \/ proxy_recv_age
    \/ proxy_recv_read(ClientTraffic, ClientMaxNotifyId)
    \/ reconnect_stratum_flush
    \/ proxy_send_take
    \/ proxy_send_lookup
    \/ proxy_send_write
    \/ proxy_send_close
    \/ proxy_loop_start
    \/ submit_share_track(ClientSubs, ClientMaxShareId)
    \/ submit_share_append

SpecClient == Init /\ [][NextClient]_vars

\* Notifications with a Merkle array of 0, 1, 16 and 17 entries, during
\* auth_stratum and in the receive loop.
MerkleMaxNotifyId == 2
MerkleMaxReqId == 4
MerkleTraffic ==
    {m \in NotifyMsgsWith({0, 1, 16, 17}) : m.jobid = "ja"} \cup {AuthOk}
MerkleSubReplies == {SubTimeout} \cup SubArrays({NULLS}, {"0a0b0c0d"}, {JInt(0, 4)})

NextMerkle ==
    \/ connect_proxy
    \/ subscribe_stratum_send(MerkleMaxReqId)
    \/ subscribe_stratum_reply(MerkleSubReplies)
    \/ auth_stratum_send(MerkleMaxReqId)
    \/ auth_stratum_read(MerkleTraffic, MerkleMaxNotifyId)
    \/ proxy_recv_age
    \/ proxy_recv_read(MerkleTraffic, MerkleMaxNotifyId)
    \/ reconnect_stratum_flush

SpecMerkle == Init /\ [][NextMerkle]_vars

\* The send thread against reconnect_stratum: one notification, one share
\* submission, up to three connections; the receive thread and the close
\* in the send thread are scheduled fairly.
RaceMaxNotifyId == 1
RaceMaxReqId == 6
RaceMaxShareId == 1
RaceTraffic == {m \in NotifyMsgs : m.jobid = "ja"} \cup {AuthOk}
RaceSubs == [client_id : ClientIds, msg_id : {42}, jobid : {0}, nonce : {5}]
RaceSubReplies == {SubTimeout} \cup SubArrays({NULLS}, {"0a0b0c0d"}, {JInt(0, 4)})

RaceRecv ==
    \/ connect_proxy
    \/ subscribe_stratum_send(RaceMaxReqId)
    \/ subscribe_stratum_reply(RaceSubReplies)
    \/ auth_stratum_send(RaceMaxReqId)
    \/ auth_stratum_read(RaceTraffic, RaceMaxNotifyId)
    \/ proxy_recv_age
    \/ proxy_recv_read(RaceTraffic, RaceMaxNotifyId)
    \/ reconnect_stratum_flush

NextRace ==
    \/ connect_proxy
    \/ subscribe_stratum_send(RaceMaxReqId)
    \/ subscribe_stratum_reply(RaceSubReplies)
    \/ auth_stratum_send(RaceMaxReqId)
    \/ auth_stratum_read(RaceTraffic, RaceMaxNotifyId)
    \/ proxy_recv_age
    \/ proxy_recv_read(RaceTraffic, RaceMaxNotifyId)
    \/ reconnect_stratum_flush
    \/ proxy_send_take
    \/ proxy_send_lookup
    \/ proxy_send_write
    \/ proxy_send_close
    \/ proxy_loop_start
    \/ submit_share_track(RaceSubs, RaceMaxShareId)
    \/ submit_share_append

SpecRace ==
    Init /\ [][NextRace]_vars /\ WF_vars(RaceRecv) /\ WF_vars(proxy_send_close)

\* The three threads with replies from the upstream that carry the ids 0, 1
\* and 2, result true and false, and one notification.
AuthMaxNotifyId == 1
AuthMaxReqId == 4
AuthMaxShareId == 1
AuthTraffic ==
    {m \in ResultMsgs : m.id \in Nat} \cup {m \in NotifyMsgs : m.jobid = "ja"}
AuthSubs == [client_id : ClientIds, msg_id : {42}, jobid : {0}, nonce : {5}]
AuthSubReplies == {SubTimeout} \cup SubArrays({NULLS}, {"0a0b0c0d"}, {JInt(0, 4)})

NextAuth ==
    \/ connect_proxy
    \/ subscribe_stratum_send(AuthMaxReqId)
    \/ subscribe_stratum_reply(AuthSubReplies)
    \/ auth_stratum_send(AuthMaxReqId)
    \/ auth_stratum_read(AuthTraffic, AuthMaxNotifyId)
    \/ proxy_recv_age
    \/ proxy_recv_read(AuthTraffic, AuthMaxNotifyId)
    \/ reconnect_stratum_flush
    \/ proxy_send_take
    \/ proxy_send_lookup
    \/ proxy_send_write
    \/ proxy_send_close
    \/ proxy_loop_start
    \/ submit_share_track(AuthSubs, AuthMaxShareId)
    \/ submit_share_append

SpecAuth == Init /\ [][NextAuth]_vars

\* The send queue step by step: submit_share and proxy_send with
\* psend_lock and psend_cond, three submissions.  The send thread is
\* scheduled fairly, except that a wake-up without a signal need not come;
\* the control thread leaves its critical section.
QueueMaxNotifyId == 1
QueueMaxReqId == 4
QueueMaxShareId == 3
QueueTraffic == {m \in NotifyMsgs : m.jobid = "ja"} \cup {AuthOk, AuthFail}
QueueSubs == [client_id : ClientIds, msg_id : {42}, jobid : {0}, nonce : {5}]
QueueSubReplies == {SubTimeout} \cup SubArrays({NULLS}, {"0a0b0c0d"}, {JInt(0, 4)})

QueueSend ==
    \/ proxy_send_lock
    \/ proxy_send_check
    \/ proxy_send_wake
    \/ proxy_send_relock
    \/ proxy_send_dequeue
    \/ proxy_send_lookup
    \/ proxy_send_write
    \/ proxy_send_close

QueueCritical ==
    \/ submit_share_signal
    \/ submit_share_unlock

NextQueue ==
    \/ connect_proxy
    \/ subscribe_stratum_send(QueueMaxReqId)
    \/ subscribe_stratum_reply(QueueSubReplies)
    \/ auth_stratum_send(QueueMaxReqId)
    \/ auth_stratum_read(QueueTraffic, QueueMaxNotifyId)
    \/ proxy_loop_start
    \/ submit_share_track(QueueSubs, QueueMaxShareId)
    \/ submit_share_lock
    \/ submit_share_signal
    \/ submit_share_unlock
    \/ proxy_send_lock
    \/ proxy_send_check
    \/ proxy_send_wake
    \/ proxy_send_spurious
    \/ proxy_send_relock
    \/ proxy_send_dequeue
    \/ proxy_send_lookup
    \/ proxy_send_write
    \/ proxy_send_close

SpecQueue ==
    Init /\ [][NextQueue]_vars /\ WF_vars(QueueSend) /\ WF_vars(QueueCritical)

\* reconnect_stratum against an upstream that misbehaves in any way until
\* the clock has advanced once and from then on accepts every connection,
\* accepts the one-parameter mining.subscribe and rejects the two other
\* forms with an error reply, takes every request and answers
\* mining.authorize with true.  The request ids are counted modulo
\* StickyIdWrap and the connections past StickyMaxConn are numbered alike,
\* so that the retry loop can go round for ever.  The receive thread is
\* scheduled fairly.
StickyIdWrap == 4
StickyMaxConn == 2
StickyMaxTicks == 1
StickyAccepts == {1}
StickyReplies ==
    {SubTimeout, SubError}
    \cup SubArrays({NULLS, "s1"}, {"0a0b0c0d"}, {JInt(0, 4)})
Stable == ticks >= StickyMaxTicks
StickyNextId == (id + 1) % StickyIdWrap
StickyNextConn == IF conn < StickyMaxConn THEN conn + 1 ELSE conn

StickyConnect ==
    /\ connect_proxy_to(StickyNextConn)
    /\ Stable => sock' = "open"

StickySubscribeSend ==
    /\ subscribe_stratum_write(StickyNextId)
    /\ Stable => rpc' = "parse_subscribe"

StickySubscribeReply ==
    /\ subscribe_stratum_parse(StickyReplies, StickyNextConn)
    /\ Stable =>
        /\ sub_reply'.kind # "timeout"
        /\ sub_reply'.kind = "array" <=>
                subscribe_form(sessionid, no_params) \in StickyAccepts
        /\ rpc' = Retry => no_params

StickyAuthSend ==
    /\ auth_stratum_write(StickyNextId)
    /\ Stable => rpc' = "auth_read"

StickyAuthRead ==
    /\ auth_stratum_read({AuthOk, AuthFail}, 0)
    /\ Stable => rpc' = "age"

StickyRecv ==
    \/ StickyConnect
    \/ StickySubscribeSend
    \/ StickySubscribeReply
    \/ StickyAuthSend
    \/ StickyAuthRead
    \/ proxy_recv_age
    \/ proxy_recv_read({AuthOk}, 0)
    \/ reconnect_stratum_flush

NextSticky ==
    \/ StickyConnect
    \/ StickySubscribeSend
    \/ StickySubscribeReply
    \/ StickyAuthSend
    \/ StickyAuthRead
    \/ proxy_recv_age
    \/ proxy_recv_read({AuthOk}, 0)
    \/ reconnect_stratum_flush
    \/ Tick({1}, StickyMaxTicks)

SpecSticky == Init /\ [][NextSticky]_vars /\ WF_vars(StickyRecv)

(* ------------------------------ claims -------------------------------- *)
\* C1: every mining.submit the send loop transmits carries the upstream job
\* id of the notification the cache held under the submission's local jobid
\* when it was looked up; when the cache held none, nothing is transmitted.
\* At most one mining.submit goes out per submission taken.
C1_SubmitCarriesLookedUpJob ==
    [][wire' # wire =>
          /\ spc = "send"
          /\ wire' = Append(wire, wire'[Len(wire')])
          /\ wire'[Len(wire')].id = smsg.id
          /\ wire'[Len(wire')].jobid \in sfound]_vars

\* a mining.submit went out while the cache also holds a notification with
\* another upstream job id, on a connection made by a reconnect
C1_Witness ==
    /\ Len(wire) > 0
    /\ conn > 1
    /\ \E e \in Range(notify_instances) : e.jobid # wire[Len(wire)].jobid

\* C2: current_notify is NULL or points to an entry that is present in the
\* notification cache (so getnotify reads no removed notification).
C2_CurrentNotifyLive ==
    \/ current_notify = NULL
    \/ \E e \in Range(notify_instances) : e.id = current_notify

\* C3: outside reconnect_stratum the cache holds only notifications received
\* on the present connection: none from before the reconnect, none from an
\* abandoned connection attempt of the reconnect loop.
C3_CacheOfThisConnection ==
    (started /\ rpc \in {"age", "read"}) =>
        \A e \in Range(notify_instances) : e.conn = conn

\* C6: the local ids given to accepted notifications are strictly increasing
\* in the order of acceptance, and no two entries of the cache share an id.
C6_NotifyIdsIncreaseAndUnique ==
    /\ \A i, j \in 1..Len(accepted) : i < j => accepted[i] < accepted[j]
    /\ \A i, j \in 1..Len(notify_instances) :
          i # j => notify_instances[i].id # notify_instances[j].id

\* the cache holds notifications of two connections: one accepted inside
\* auth_stratum on an attempt that was abandoned, one accepted later
C6_Witness ==
    /\ Len(accepted) >= 2
    /\ \E e1, e2 \in Range(notify_instances) : e1.conn < e2.conn

\* C4: share round trip.  submit_share adds one tracker entry under a fresh
\* local id N with the submission's client_id and msg_id; the object it
\* queues has neither client_id nor msg_id and has id = N; the mining.submit
\* written for a queued object carries that object's id; and a response line
\* with integer id N processed by the receive loop removes the tracker entry
\* N, if present, and no other entry.
C4_ShareRoundTrip ==
    [][/\ share_id' # share_id =>
            /\ share_id' = share_id + 1
            /\ \A e \in Range(shares) : e.id < share_id
            /\ \A i \in 1..Len(appended) : appended[i] < share_id
            /\ \E v \in ShareSubs :
                /\ shares' = Append(shares,
                        [id |-> share_id, client_id |-> v.client_id,
                         msg_id |-> v.msg_id, submit_time |-> now])
                /\ cval' = [id |-> share_id, jobid |-> v.jobid,
                            nonce |-> v.nonce]
       /\ Len(psends') > Len(psends) =>
            /\ psends' = Append(psends, cval)
            /\ DOMAIN cval = {"id", "jobid", "nonce"}
            /\ cval.id = share_id - 1
       /\ wire' # wire =>
            /\ smsg \in Range(<<smsg>> \o psends)
            /\ wire' = Append(wire, [id |-> smsg.id, jobid |-> sjobid,
                                     nonce |-> smsg.nonce, conn |-> conn])
       /\ (rpc = "read" /\ rpc' = "age" /\ buf'.method = ""
           /\ buf'.id \in Nat) =>
            shares' = SelectSeq(shares, LAMBDA e : e.id # buf'.id)
      ]_vars

\* C4 witness: two shares are tracked, the first went upstream as
\* mining.submit with id 0, and the response with id 0 has just removed
\* entry 0 and left entry 1, with no aging involved
C4_Witness ==
    /\ share_id = 2
    /\ ticks = 0
    /\ rpc = "age"
    /\ buf.method = "" /\ buf.id = 0
    /\ \E i \in 1..Len(wire) : wire[i].id = 0
    /\ \A e \in Range(shares) : e.id # 0
    /\ \E e \in Range(shares) : e.id = 1 /\ e.msg_id = 43

\* C5: the send loop takes the submissions in the order submit_share
\* appended them (what it has taken is a prefix of what was appended and the
\* queue is the rest, in order), the ids of the mining.submit messages on the
\* wire are strictly increasing, each one is the submission taken last, and
\* a submission without a matching notification is neither sent nor put
\* back.
C5_SendQueueFifo ==
    /\ [](/\ Len(taken) <= Len(appended)
          /\ \A i \in 1..Len(taken) : taken[i] = appended[i]
          /\ Len(psends) = Len(appended) - Len(taken)
          /\ \A i \in 1..Len(psends) :
                psends[i].id = appended[Len(taken) + i]
          /\ \A i, j \in 1..Len(wire) : i < j => wire[i].id < wire[j].id)
    /\ [][/\ wire' # wire =>
                /\ spc = "send" /\ sjobid # NULLS
                /\ wire' = Append(wire, wire'[Len(wire')])
                /\ wire'[Len(wire')].id = taken[Len(taken)]
          /\ (spc = "send" /\ spc' # spc) =>
                /\ psends' = psends
                /\ taken' = taken
                /\ sjobid = NULLS => wire' = wire
          /\ taken' # taken =>
                /\ psends # <<>>
                /\ taken' = Append(taken, Head(psends).id)
                /\ psends' = Tail(psends)
         ]_vars

\* C5 witness: two submissions were appended and taken in that order, the
\* first had no matching notification and was dropped, the second is on the
\* wire
C5_Witness ==
    /\ appended = <<0, 1>>
    /\ taken = <<0, 1>>
    /\ psends = <<>>
    /\ Len(wire) = 1 /\ wire[1].id = 1

\* C7: a tracker entry leaves the tracker only when the receive loop
\* processes a line carrying its id or when an aging pass finds it more than
\* 120 s old; an aging pass removes every entry more than 120 s old; a line
\* with an id that is not tracked changes neither the tracker nor the cache.
C7_TrackerLeaveTwoWays ==
    [][/\ \A e \in Range(shares) :
            e \notin Range(shares') =>
                \/ rpc = "read" /\ rpc' = "age" /\ buf'.id = e.id
                \/ /\ rpc = "age" /\ rpc' = "read"
                   /\ e.submit_time < now - ShareAge
       /\ (rpc = "age" /\ rpc' = "read") =>
            \A e \in Range(shares') : ~(e.submit_time < now - ShareAge)
       /\ (rpc = "read" /\ rpc' = "age" /\ buf'.method = ""
           /\ buf'.id \in Nat
           /\ \A e \in Range(shares) : e.id # buf'.id) =>
            shares' = shares /\ notify_instances' = notify_instances
      ]_vars

\* C8 as stated: in an aging pass an entry is removed exactly when it is
\* older than 600 s and more than two younger entries exist; with n >= 3
\* entries all older than 600 s the 3 youngest are retained.
C8_AgeKeepsThree ==
    [][(rpc = "age" /\ rpc' = "read") =>
        LET n == Len(notify_instances)
        IN  /\ \A i \in 1..n :
                 notify_instances[i] \notin Range(notify_instances') <=>
                    /\ notify_instances[i].notify_time < now - NotifyAge
                    /\ n - i > 2
            /\ n < 3 => notify_instances' = notify_instances
            /\ (/\ n >= 3
                /\ \A i \in 1..n :
                      notify_instances[i].notify_time < now - NotifyAge) =>
                 notify_instances' = SubSeq(notify_instances, n - 2, n)
      ]_vars

\* C8 amended: in an aging pass an entry is removed exactly when it is
\* older than 600 s and at least two younger entries exist; a cache of fewer
\* than 3 entries never evicts on age; with n >= 3 entries all older than
\* 600 s the pass removes the n-2 oldest and retains the 2 youngest.
C8_AgeKeepsTwo ==
    [][(rpc = "age" /\ rpc' = "read") =>
        LET n == Len(notify_instances)
        IN  /\ \A i \in 1..n :
                 notify_instances[i] \notin Range(notify_instances') <=>
                    /\ notify_instances[i].notify_time < now - NotifyAge
                    /\ n - i >= 2
            /\ \E keep \in SUBSET (1..n) :
                 notify_instances' =
                    SelectSeq(notify_instances,
                              LAMBDA e : \E i \in keep : notify_instances[i] = e)
            /\ n < 3 => notify_instances' = notify_instances
            /\ (/\ n >= 3
                /\ \A i \in 1..n :
                      notify_instances[i].notify_time < now - NotifyAge) =>
                 notify_instances' = SubSeq(notify_instances, n - 1, n)
      ]_vars

\* C8 witness: ten notifications inserted one second apart or less, the
\* clock then advanced past ten minutes, and the aging pass that followed
\* has left the two youngest
C8_Witness ==
    /\ notify_id = 10
    /\ conn = 1
    /\ rpc = "read"
    /\ Len(notify_instances) = 2
    /\ notify_instances[1].id = 8 /\ notify_instances[2].id = 9
    /\ \A e \in Range(notify_instances) : e.notify_time < now - NotifyAge
    /\ notify_instances[1].notify_time < notify_instances[2].notify_time

\* C9: the fallback ladder of one call of subscribe_stratum.  A failure of
\* the two-parameter form discards the session id and sets no_sessionid and
\* leaves no_params alone; no_params is set only by a failure of the
\* session-less one-parameter form; a failure with no_params set ends the
\* call with the socket closed.  A call in which the two-parameter and the
\* one-parameter form are rejected and the empty form is accepted has made
\* exactly two reconnects and ends with no_sessionid and no_params set and
\* with the enonce1 and the nonce2len parse_subscribe read from the third
\* response.
C9_SubscribeLadder ==
    /\ [](\A i \in 1..Len(sub_trace) :
            /\ (sub_trace[i].form = 2 /\ i < Len(sub_trace)) =>
                    sub_trace[i + 1].form = 1
            /\ (sub_trace[i].form = 0 /\ ~sub_trace[i].ok) =>
                    i = Len(sub_trace) /\ rpc # "subscribe"
            /\ (sub_trace[i].form = 0 /\ i > 1) =>
                    sub_trace[i - 1].form = 1
            /\ sub_trace[i].ok => i = Len(sub_trace))
    /\ []((/\ rpc = "auth"
           /\ sub_trace # <<>>
           /\ sub_trace[1].form = 2
           /\ sub_trace[Len(sub_trace)].form = 0) =>
            /\ sub_trace = <<[form |-> 2, ok |-> FALSE],
                             [form |-> 1, ok |-> FALSE],
                             [form |-> 0, ok |-> TRUE]>>
            /\ sub_reconnects = 2
            /\ no_sessionid /\ no_params
            /\ sessionid = NULLS
            /\ enonce1 = sub_reply.enonce1
            /\ nonce1len = Len(sub_reply.enonce1) \div 2
            /\ sub_reply.nonce2.isint /\ nonce2len = sub_reply.nonce2.lo)
    /\ [][(/\ rpc = "parse_subscribe"
           /\ sub_trace' # sub_trace
           /\ ~sub_trace'[Len(sub_trace')].ok) =>
            /\ sessionid' = NULLS
            /\ no_params =>
                /\ rpc' # "subscribe" /\ sock' = "closed"
                /\ no_sessionid' = no_sessionid /\ no_params'
                /\ sub_reconnects' = sub_reconnects
            /\ (~no_params /\ sessionid # NULLS) =>
                /\ no_sessionid' /\ ~no_params'
            /\ (~no_params /\ no_params') =>
                /\ sessionid = NULLS
                /\ sub_trace'[Len(sub_trace')].form = 1
                /\ no_sessionid' = no_sessionid
            /\ rpc' = "subscribe" => sub_reconnects' = sub_reconnects + 1
         ]_vars

\* C9 witness: a call that sent the two-parameter form, then the
\* one-parameter form, then the empty form, was accepted on the third and
\* holds the enonce1 of the third response, which the second response did
\* not carry
C9_Witness ==
    /\ rpc = "auth"
    /\ sub_trace = <<[form |-> 2, ok |-> FALSE], [form |-> 1, ok |-> FALSE],
                     [form |-> 0, ok |-> TRUE]>>
    /\ sub_reconnects = 2
    /\ no_sessionid /\ no_params
    /\ enonce1 = "0e0f" /\ nonce2len = 8

\* C10: parse_subscribe accepts an otherwise well formed response exactly
\* when its nonce2 length is in [4, 8], and after a successful subscribe
\* nonce2len lies in [4, 8].
C10_Nonce2Range ==
    /\ []((rpc \in {"auth", "auth_read", "age", "read", "reconnect"}
           \/ nonce2len # 0) => nonce2len \in 4..8)
    /\ [][(/\ rpc = "parse_subscribe"
           /\ sub_trace' # sub_trace
           /\ sub_reply'.kind = "array"
           /\ sub_reply'.enonce1 # NULLS
           /\ sub_reply'.nonce2.isint) =>
            (sub_trace'[Len(sub_trace')].ok <=>
                /\ sub_reply'.nonce2.hi = 0
                /\ sub_reply'.nonce2.lo \in 4..8)
         ]_vars

\* C11: parse_subscribe accepts the extranonce1 of a response only if the
\* hex string has even length and stands for at most 15 bytes; a string of
\* 30 characters is accepted.
C11_Enonce1EvenAndShort ==
    [][(/\ rpc = "parse_subscribe"
        /\ sub_trace' # sub_trace
        /\ sub_reply'.kind = "array"
        /\ sub_reply'.enonce1 # NULLS) =>
        LET n == Len(sub_reply'.enonce1)
            ok == sub_trace'[Len(sub_trace')].ok
        IN  /\ ok => n % 2 = 0 /\ n \div 2 <= 15
            /\ n = 30 => ok
            /\ n = 32 => ~ok
      ]_vars

\* C12: an invalid payload leaves the session state unchanged.  A rejected
\* subscribe response leaves enonce1, nonce1len and nonce2len as they were
\* and acquires no session id (with no session id held before, there is
\* none to discard and no_sessionid keeps its value); a rejected
\* mining.notify leaves the cache, current_notify and notify_id as they were.
C12_InvalidPayloadNoChange ==
    [][/\ (/\ rpc = "parse_subscribe"
           /\ sub_trace' # sub_trace
           /\ ~sub_trace'[Len(sub_trace')].ok) =>
            /\ enonce1' = enonce1
            /\ nonce1len' = nonce1len
            /\ nonce2len' = nonce2len
            /\ sessionid = NULLS => no_sessionid' = no_sessionid
       /\ (/\ rpc \in {"auth_read", "read"}
           /\ rpc' # rpc
           /\ buf'.method = "mining.notify" /\ ~buf'.ok) =>
            /\ notify_instances' = notify_instances
            /\ current_notify' = current_notify
            /\ notify_id' = notify_id
      ]_vars

\* C13: a mining.set_difficulty whose value is nonzero and differs from diff
\* sets diff and causes one diff signal; one whose value is 0 or equals
\* diff changes neither diff nor diffed and causes no signal.
C13_OneDiffSignal ==
    [][(/\ \/ rpc = "auth_read" /\ rpc' = "auth_read"
           \/ rpc = "read" /\ rpc' = "age"
        /\ buf'.method = "mining.set_difficulty") =>
        IF buf'.diff # 0 /\ buf'.diff # diff
        THEN diff' = buf'.diff /\ "diff" \in sig'
        ELSE diff' = diff /\ diffed' = diffed /\ "diff" \notin sig'
      ]_vars

\* C14: every notification inserted into the cache gets exactly one notify
\* signal, sent after the insert: once the control thread is past its
\* start-up and the receive thread is back at the top of its loop no
\* inserted notification is without its signal, and a notify signal of the
\* receive loop stands for exactly one inserted notification.
C14_OneSignalPerNotification ==
    /\ []((started /\ cpc # "start" /\ rpc = "age") => pending = 0)
    /\ [][(rpc = "read" /\ "notify" \in sig') =>
            pending + Len(accepted') - Len(accepted) = 1]_vars

\* C15: the receive loop calls reconnect_stratum exactly when a read
\* returns an error or the 24th consecutive read returns nothing; fewer
\* empty reads do not, and the count starts again at the top of the loop.
\* Every call flushes the notification cache and sends one subscribe
\* signal, when it returns after a successful authorize.
C15_StallPolicy ==
    /\ [](/\ retries \in 0..24
          /\ (started /\ rpc # "age") => "subscribe" \notin sig)
    /\ [][/\ (rpc = "read" /\ rpc' = "reconnect") =>
                retries' = retries \/ retries' = 24
          /\ (rpc = "read" /\ retries' = retries + 1) =>
                (rpc' = "reconnect" <=> retries' = 24)
          /\ (rpc = "read" /\ retries' = retries + 1 /\ retries' < 24) =>
                rpc' = "read"
          /\ (rpc = "read" /\ rpc' = "age") => retries < 24
          /\ (rpc = "age" /\ rpc' = "read") => retries' = 0
          /\ (rpc = "reconnect" /\ rpc' # rpc) => notify_instances' = <<>>
          /\ ("subscribe" \in sig' /\ "subscribe" \notin sig) <=>
                (started /\ rpc = "auth_read" /\ rpc' = "age")
          /\ ("subscribe" \in sig' /\ "subscribe" \notin sig) =>
                buf'.result /\ nonce2len \in 4..8
         ]_vars

\* C15 witness: 24 empty reads in a row sent the receive loop into
\* reconnect_stratum, which emptied a cache that held a notification and
\* has just returned with its subscribe signal
C15_Witness ==
    /\ retries = 24
    /\ rpc = "age"
    /\ conn = 2
    /\ sig = {"subscribe"}
    /\ accepted # <<>>
    /\ notify_instances = <<>>

\* C16: a line whose method is none of mining.notify, mining.set_difficulty,
\* client.reconnect, client.get_version and client.show_message is ignored
\* by the receive loop: the share tracker, the notification cache,
\* current_notify, diff, notified and diffed stay as they were, whatever id
\* the line carries.
C16_UnknownMethodIgnored ==
    [][(rpc = "read" /\ rpc' = "age" /\ buf'.method = "mining.other") =>
            /\ shares' = shares
            /\ notify_instances' = notify_instances
            /\ current_notify' = current_notify
            /\ diff' = diff
            /\ notified' = notified
            /\ diffed' = diffed
      ]_vars

\* C17: at startup, when no endpoint is alive the mode returns 1 without
\* serving; otherwise the endpoint it serves is alive and has the lowest
\* index among the alive endpoints.
C17_FirstAliveServed ==
    /\ served # NULL =>
        /\ alive[served + 1] = "alive"
        /\ \A k \in 1..served : alive[k] # "alive"
    /\ (mpc \in {"out", "returned", "died"} /\ AliveCount(alive) = 0) =>
        /\ served = NULL
        /\ mode_ret = 1
        /\ mpc # "died"

\* C18: no two requests written to the upstream on one connection carry
\* the same id: the ids of the mining.submit requests differ from each
\* other and from the ids of that connection's mining.subscribe and
\* mining.authorize.
C18_RequestIdsUnique ==
    /\ \A k \in 1..Len(wire) : wire[k].conn = conn => wire[k].id \notin reqs
    /\ \A k, l \in 1..Len(wire) :
        (k < l /\ wire[k].conn = wire[l].conn) => wire[k].id # wire[l].id

\* C19: the receive thread never writes to the upstream socket: not the
\* reply to client.get_version and not mining.subscribe or mining.authorize
\* during a reconnect; every write is made by the send thread.
C19_ReceiveThreadNeverWrites == recv_writes = {}

\* C20: the send loop closes the upstream socket only when the transmit of
\* the mining.submit it built in this iteration failed; an iteration whose
\* job id is not in the cache transmits nothing and leaves the socket as it
\* was.
C20_CloseOnlyOnFailedSend ==
    [][/\ (spc = "send" /\ spc' # spc /\ sjobid = NULLS) =>
            (wire' = wire /\ spc' = "wait")
       /\ (spc = "send" /\ spc' = "close") =>
            (sjobid # NULLS /\ wire' = wire)
       /\ (spc = "close" /\ sock' # sock) => stried
      ]_vars

\* C21: every notification in the cache has a Merkle count between 0 and
\* 16, and no row past the sixteenth of its merklehash was written: a
\* mining.notify with more than 16 Merkle entries is stored with its first
\* 16 only.
C21_MerklesAtMostSixteen ==
    \A k \in 1..Len(notify_instances) :
        /\ notify_instances[k].merkles \in 0..16
        /\ notify_instances[k].merklehash \subseteq 0..15

\* C22: after a failed write of a mining.submit the send thread closes the
\* socket and the receive thread then gets to reconnect_stratum (or, when it
\* is inside it, to a connect of its own), unless the request ids of the
\* model are used up; and the close never closes a connection that was
\* made after the failed write.
C22_CloseThenReconnect ==
    /\ \A c \in 0..RaceMaxReqId :
        (spc = "close" /\ stried /\ conn = c) ~>
            \/ rpc \in {"reconnect", "connect"}
            \/ conn > c
            \/ id >= RaceMaxReqId
    /\ [][(spc = "close" /\ sock = "open" /\ sock' = "closed") =>
            conn = sconn]_vars

\* C23: auth_stratum succeeds only on a line that answers its own
\* mining.authorize (the id of the request, which is id - 1 once it is
\* sent) with result true, and a line with another id does not make it
\* fail either.
C23_AuthOnlyOnOwnReply ==
    [][/\ (rpc = "auth_read" /\ rpc' = "age") =>
            (buf'.result /\ buf'.id = id - 1)
       /\ (rpc = "auth_read" /\ rpc' \notin {"auth_read", "age"}
           /\ buf' # buf) => buf'.id = id - 1
      ]_vars

\* C24: a mining.submit goes out only on the connection on which its
\* notification was received and only when subscribe and authorize have
\* succeeded on that connection: never while the receive thread is between
\* the connect and the completed authorize of a connection, and never with
\* an upstream job id of a notification of an earlier connection.
C24_SubmitOnlyOnItsConnection ==
    [][wire' # wire =>
            /\ rpc \notin {"subscribe", "parse_subscribe", "auth", "auth_read"}
            /\ sfconn = wire'[Len(wire')].conn
      ]_vars

\* C25: every submission appended to the send queue is taken off it by the
\* send loop, once and in the order of the appends, and the send thread
\* does not stay in its wait while the queue holds a submission.
C25_QueueDrained ==
    /\ [](/\ appended = taken \o [k \in 1..Len(psends) |-> psends[k].id]
          /\ \A k, l \in 1..Len(appended) :
                k # l => appended[k] # appended[l])
    /\ \A k \in 1..QueueMaxShareId :
        (Len(appended) >= k) ~> (Len(taken) >= k)
    /\ (spc = "cwait" /\ psends # <<>>) ~> (spc # "cwait")

\* C25 witness: the first submission was taken and the send thread went
\* back to its wait; the second was appended while it waits, and the signal
\* is on its way
C25_Witness ==
    /\ spc = "cwait"
    /\ psend_cond
    /\ Len(taken) = 1
    /\ Len(psends) = 1
    /\ appended = <<0, 1>>

\* C26: once the upstream accepts connections, accepts one of the three
\* forms of mining.subscribe and authorizes the user, a reconnect_stratum
\* that is running comes to its end and sends the subscribe signal,
\* whatever no_sessionid and no_params were set to by earlier failures.
C26_ReconnectSucceeds ==
    (Stable /\ started /\ rpc \notin {"age", "read"}) ~>
        (rpc = "age" /\ "subscribe" \in sig)

============================================================================
